---- MODULE Spec2Model ----
(***************************************************************************)
(* Order lifecycle, review eligibility and cart management of the studio   *)
(* marketplace backend (src/studio/app_studio).                            *)
(*                                                                         *)
(* Every REST request is a sequence of database statements.  A request is  *)
(* modelled as one action per statement group that other requests can      *)
(* interleave with: the row(s) it reads first, then the write it decides   *)
(* on from what it read.  The database itself executes each statement      *)
(* atomically and enforces the declared unique_together / PROTECT          *)
(* constraints, and nothing else.                                          *)
(***************************************************************************)
EXTENDS Integers, Sequences, FiniteSets, TLC

\* A null foreign key (strings) and a null number or timestamp.
Null == "null"

None == -1

\* No primary key (a response that names no order).
NoPk == 0

\* ------------------------------------------------------------------ bounds
MaxOrders == 1
MaxTime == 1
NReq == 2
MaxReviews == 2
MaxAdd == 2
MaxQty == 3
MaxItems == 2

\* ------------------------------------------------------- reference data
\* CustomUser rows; "root" has is_staff set.
Users == {"ann", "eva", "root"}

is_staff(u) == u = "root"

\* Executor profiles and their one-to-one owner (Executor.user).
Executors == {"E1", "E2"}

ExecutorUser(e) == IF e = "E1" THEN "eva" ELSE "ann"

Services == {"s1", "s2"}

\* OrderStatus.STATUS_CHOICES
Statuses == {"new", "processing", "completed", "cancelled"}

\* The literal ['completed', 'cancelled'] of the transition handlers.
Terminal == {"completed", "cancelled"}

\* timedelta(days=1) of default_scheduled_at, in clock ticks (hours).
Day == 24

\* scheduled_at absent from the request (required=False).
Omitted == None

OrderOps == {"mark_as_processing", "mark_as_completed", "cancel"}

\* Service.price values: the seeded base prices, and the prices a service
\* is given later.
InitialPrices == [s \in Services |-> IF s = "s1" THEN 200 ELSE 50]

PriceValues == {50, 200}

VARIABLES
    now,          \* timezone.now()
    statusRows,   \* status_name of the OrderStatus rows that exist
    links,        \* ExecutorService rows: <<executor, service>> -> custom_price
    prices,       \* Service.price of each service
    orders,       \* Order rows by pk (a sequence: pk = index)
    gone,         \* pks of the Order rows that were deleted
    reviews,      \* Review rows by pk (a sequence: pk = index)
    carts,        \* Cart rows: [user, nth], the nth row inserted for that user
    items,        \* CartItem rows: [pk, cart, service, quantity]
    nextItem,     \* the pk the next CartItem row gets
    items0,       \* history: the CartItem rows at the start of the behaviour
    req,          \* API requests in flight, by worker
    resp          \* the response (or admin message) of the last order/review handler

cartVars == <<carts, items, nextItem, items0>>

vars == <<now, statusRows, links, prices, orders, gone, reviews, carts, items, nextItem, items0, req, resp>>

Idle == [pc |-> "idle"]

\* What the last answered request was and how it was answered.
Response(op, user, order, result) ==
    [op |-> op, user |-> user, order |-> order, result |-> result]

\* -------------------------------------------------------------- helpers
\* The pks of the Order rows that exist.
OrderIds == (1..Len(orders)) \ gone

\* Mutation of Offers: the executor is only required to offer some service.
Offers_AnyService(e, s) == \E x \in Services : <<e, x>> \in DOMAIN links

\* ExecutorService.objects.filter(executor=executor, service=service).exists()
Offers(e, s) == <<e, s>> \in DOMAIN links

\* Mutation of Visible: the queryset is not filtered by user.
Visible_NoFilter(u, o) == TRUE

\* OrderViewSet.get_queryset: staff see every order, others the orders of
\* which they are the client or the user of the assigned executor.
Visible(u, o) ==
    \/ is_staff(u)
    \/ orders[o].client = u
    \/ orders[o].executor # Null /\ ExecutorUser(orders[o].executor) = u

\* Mutation of MayProgress: the order's client may also move it on.
MayProgress_ClientToo(u, order) ==
    \/ is_staff(u)
    \/ order.executor # Null /\ ExecutorUser(order.executor) = u
    \/ order.client = u

\* user.is_staff or (order.executor and order.executor.user == user)
MayProgress(u, order) ==
    is_staff(u) \/ (order.executor # Null /\ ExecutorUser(order.executor) = u)

\* Mutation of MayCancel: the client may cancel whatever the status is.
MayCancel_ClientAlways(u, order) == u = order.client \/ is_staff(u)

\* can_cancel of OrderViewSet.cancel
MayCancel(u, order) ==
    (u = order.client /\ order.status \in {"new"}) \/ is_staff(u)

Permitted(op, u, order) ==
    IF op = "cancel" THEN MayCancel(u, order) ELSE MayProgress(u, order)

\* The status row each transition looks up.
TargetStatus(op) ==
    CASE op = "mark_as_processing" -> "processing"
      [] op = "mark_as_completed" -> "completed"
      [] op = "cancel" -> "cancelled"

\* Mutation of Open: 'cancelled' left out of the list of closed statuses.
Open_OnlyCompleted(status) == status # "completed"

\* order.status.status_name not in ['completed', 'cancelled']
Open(status) == status \notin Terminal

\* Mutation of CompletedAtFor: cancel leaves completed_at empty.
CompletedAtFor_CancelNull(op) == IF op = "mark_as_completed" THEN now ELSE None

\* The completed_at each transition assigns next to the status.
CompletedAtFor(op) == IF op = "mark_as_processing" THEN None ELSE now

\* order.save(update_fields=['status', 'completed_at'])
SaveStatus(o, status, completed_at) ==
    [orders EXCEPT ![o].status = status, ![o].completed_at = completed_at]

\* ------------------------------------------------------------- the clock
Tick ==
    /\ now < MaxTime
    /\ now' = now + 1
    /\ UNCHANGED <<statusRows, links, orders, reviews, req, resp, cartVars, gone, prices>>

\* ---------------------------------------------------------- order create
\* Mutation of ValidateOrder: a schedule equal to the current time passes.
ValidateOrder_StrictlyPast(e, s, sched) ==
    IF e # Null /\ ~Offers(e, s) THEN "ExecutorDoesNotOfferService"
    ELSE IF (IF sched = Omitted THEN now + Day ELSE sched) < now
         THEN "ScheduledTimeInPast"
    ELSE "OK"

\* OrderWriteSerializer.validate: catalog check, then schedule check.
ValidateOrder(e, s, sched) ==
    IF e # Null /\ ~Offers(e, s) THEN "ExecutorDoesNotOfferService"
    ELSE IF (IF sched = Omitted THEN now + Day ELSE sched) <= now
         THEN "ScheduledTimeInPast"
    ELSE "OK"

\* The row OrderWriteSerializer.create inserts: client is the hidden
\* CurrentUserDefault, status the 'new' row, completed_at the column default.
NewOrder(u, e, s) ==
    [client |-> u, executor |-> e, service |-> s, status |-> "new",
     completed_at |-> None]

\* POST /orders/ : OrderViewSet.create -> validate -> create.
CreateOrder(u, e, s, sched) ==
    /\ Len(orders) < MaxOrders
    /\ LET v == ValidateOrder(e, s, sched) IN
       IF v # "OK" THEN
            /\ resp' = Response("create", u, NoPk, v)
            /\ UNCHANGED orders
       ELSE IF "new" \notin statusRows THEN
            /\ resp' = Response("create", u, NoPk, "StatusNotFound")
            /\ UNCHANGED orders
       ELSE
            /\ orders' = Append(orders, NewOrder(u, e, s))
            /\ resp' = Response("create", u, Len(orders) + 1, "Created")
    /\ UNCHANGED <<now, statusRows, links, reviews, req, cartVars, gone, prices>>

\* ----------------------------------------------- order write requests
\* A field the request body does not carry.
Absent == "absent"

\* Request bodies of POST / PUT / PATCH on orders: the writable fields, and
\* client, status and completed_at either all left out or all given.
Bodies ==
    {b \in [client : {Absent, "root"}, status : {Absent, "completed"},
            completed_at : {Omitted, 0},
            executor : Executors \cup {Null, Absent},
            service : Services \cup {Absent},
            scheduled_at : {Omitted, 0}] :
        /\ (b.client = Absent) <=> (b.status = Absent)
        /\ (b.client = Absent) <=> (b.completed_at = Omitted)}

\* Mutation of ValidatedData: a client given in the body is taken.
ValidatedData_ClientFromBody(u, body) ==
    [client |-> IF body.client = Absent THEN u ELSE body.client,
     executor |-> body.executor, service |-> body.service,
     scheduled_at |-> body.scheduled_at]

\* The fields OrderWriteSerializer declares: client is a HiddenField filled
\* with the current user, status is read-only, completed_at is not a field.
ValidatedData(u, body) ==
    [client |-> u, executor |-> body.executor, service |-> body.service,
     scheduled_at |-> body.scheduled_at]

\* POST /orders/ with a body: the required service field, then CreateOrder
\* on the validated data (an executor left out stays null).
PostOrder(u, body) ==
    LET d == ValidatedData(u, body) IN
    IF d.service = Absent THEN
        /\ Len(orders) < MaxOrders
        /\ resp' = Response("create", u, NoPk, "InvalidField")
        /\ UNCHANGED <<now, statusRows, links, orders, reviews, req, cartVars, gone, prices>>
    ELSE
        CreateOrder(d.client, IF d.executor = Absent THEN Null ELSE d.executor,
                    d.service, d.scheduled_at)

\* is_valid() of a PUT (partial = FALSE) or PATCH (partial = TRUE): service is
\* required unless partial; validate() sees only the fields of the request,
\* so the catalog check runs when executor and service are both given.
WriteCheck(partial, d) ==
    IF ~partial /\ d.service = Absent THEN "InvalidField"
    ELSE IF d.executor \in Executors /\ d.service \in Services
        THEN ValidateOrder(d.executor, d.service, d.scheduled_at)
        ELSE ValidateOrder(Null, d.service, d.scheduled_at)

\* ModelSerializer.update: every validated field is assigned to the instance;
\* a partial update skips the hidden client field and the fields left out.
Assigned(row, partial, d) ==
    [row EXCEPT !.client = IF partial THEN @ ELSE d.client,
                !.executor = IF d.executor = Absent THEN @ ELSE d.executor,
                !.service = IF d.service = Absent THEN @ ELSE d.service]

\* PUT / PATCH /orders/{o}/ up to the save: get_object() through
\* get_queryset, is_valid(), and the assignments to the instance read.
BeginUpdate(p, u, o, partial, body) ==
    /\ req[p].pc = "idle"
    /\ LET op == IF partial THEN "partial_update" ELSE "update"
           d == ValidatedData(u, body) IN
       IF o \notin OrderIds \/ ~Visible(u, o) THEN
            /\ resp' = Response(op, u, o, "NotFound")
            /\ UNCHANGED req
       ELSE IF WriteCheck(partial, d) # "OK" THEN
            /\ resp' = Response(op, u, o, WriteCheck(partial, d))
            /\ UNCHANGED req
       ELSE
            /\ req' = [req EXCEPT ![p] =
                         [pc |-> "save", op |-> op, user |-> u, order |-> o,
                          row |-> Assigned(orders[o], partial, d)]]
            /\ UNCHANGED resp
    /\ UNCHANGED <<now, statusRows, links, orders, reviews, cartVars, gone, prices>>

\* instance.save() of the update: the whole row is written as the request
\* holds it; Model.save inserts the row when its UPDATE matches none.
FinishUpdate(p) ==
    /\ req[p].pc = "save"
    /\ orders' = [orders EXCEPT ![req[p].order] = req[p].row]
    /\ gone' = gone \ {req[p].order}
    /\ resp' = Response(req[p].op, req[p].user, req[p].order, "OK")
    /\ req' = [req EXCEPT ![p] = Idle]
    /\ UNCHANGED <<now, statusRows, links, reviews, cartVars, prices>>

\* DELETE /orders/{o}/ (ModelViewSet.destroy): get_object() and
\* instance.delete(); Review.order is on_delete=SET_NULL.
DestroyOrder(u, o) ==
    /\ IF o \notin OrderIds \/ ~Visible(u, o) THEN
            /\ resp' = Response("destroy", u, o, "NotFound")
            /\ UNCHANGED <<gone, reviews>>
       ELSE
            /\ gone' = gone \cup {o}
            /\ reviews' = [i \in DOMAIN reviews |->
                             IF reviews[i].order = o
                             THEN [reviews[i] EXCEPT !.order = NoPk]
                             ELSE reviews[i]]
            /\ resp' = Response("destroy", u, o, "Deleted")
    /\ UNCHANGED <<now, statusRows, links, orders, req, cartVars, prices>>

\* GET /orders/ (ModelViewSet.list): the rows of get_queryset.
ListOrders(u) ==
    /\ resp' = [op |-> "list", user |-> u, order |-> NoPk, result |-> "OK",
                found |-> {o \in OrderIds : Visible(u, o)}]
    /\ UNCHANGED <<now, statusRows, links, orders, reviews, req, cartVars, gone, prices>>

\* GET /orders/{o}/ (ModelViewSet.retrieve): get_object() through get_queryset.
RetrieveOrder(u, o) ==
    /\ resp' = Response("retrieve", u, o,
                        IF o \in OrderIds /\ Visible(u, o) THEN "OK" ELSE "NotFound")
    /\ UNCHANGED <<now, statusRows, links, orders, reviews, req, cartVars, gone, prices>>

\* ------------------------------------------------------ REST transitions
\* First statement of mark_as_processing / mark_as_completed / cancel:
\* self.get_object() reads the order row; the permission test that follows
\* uses only what was read.
BeginTransition(p, op, u, o) ==
    /\ req[p].pc = "idle"
    /\ IF o \notin OrderIds \/ ~Visible(u, o) THEN
            /\ resp' = Response(op, u, o, "NotFound")
            /\ UNCHANGED req
       ELSE IF ~Permitted(op, u, orders[o]) THEN
            /\ resp' = Response(op, u, o, "Forbidden")
            /\ UNCHANGED req
       ELSE
            /\ req' = [req EXCEPT ![p] =
                         [pc |-> "write", op |-> op, user |-> u, order |-> o,
                          status |-> orders[o].status]]
            /\ UNCHANGED resp
    /\ UNCHANGED <<now, statusRows, links, orders, reviews, cartVars, gone, prices>>

\* The rest of the handler: OrderStatus.objects.get, the test of the status
\* that get_object read, and the UPDATE of status and completed_at, which
\* raises (save with update_fields) when the row is no longer there.
FinishTransition(p) ==
    /\ req[p].pc = "write"
    /\ LET r == req[p] IN
       IF TargetStatus(r.op) \notin statusRows THEN
            /\ resp' = Response(r.op, r.user, r.order, "StatusNotFound")
            /\ UNCHANGED orders
       ELSE IF Open(r.status) /\ r.order \notin OrderIds THEN
            /\ resp' = Response(r.op, r.user, r.order, "ServerError")
            /\ UNCHANGED orders
       ELSE IF Open(r.status) THEN
            /\ orders' = SaveStatus(r.order, TargetStatus(r.op), CompletedAtFor(r.op))
            /\ resp' = Response(r.op, r.user, r.order, "OK")
       ELSE
            /\ resp' = Response(r.op, r.user, r.order, "InvalidTransition")
            /\ UNCHANGED orders
    /\ req' = [req EXCEPT ![p] = Idle]
    /\ UNCHANGED <<now, statusRows, links, reviews, cartVars, gone, prices>>

\* The HTTP status of the answer of an order request: serializer errors
\* (among them the ValidationError create raises when the 'new' row is
\* missing) are 400, get_object() misses are 404, and so is the answer of a
\* transition whose target status row is missing.
HttpStatus(op, result) ==
    CASE result = "Created" -> "HTTP_201_CREATED"
      [] result = "OK" -> "HTTP_200_OK"
      [] result = "Deleted" -> "HTTP_204_NO_CONTENT"
      [] result = "Forbidden" -> "HTTP_403_FORBIDDEN"
      [] result = "NotFound" -> "HTTP_404_NOT_FOUND"
      [] result = "StatusNotFound" ->
            IF op = "create" THEN "HTTP_400_BAD_REQUEST" ELSE "HTTP_404_NOT_FOUND"
      [] result = "ServerError" -> "HTTP_500_INTERNAL_SERVER_ERROR"
      [] OTHER -> "HTTP_400_BAD_REQUEST"

\* ------------------------------------------------- admin bulk actions
\* OrderAdmin.mark_processing: queryset.update(status=processing, completed_at=None)
AdminMarkProcessing(sel) ==
    /\ IF "processing" \notin statusRows THEN
            /\ resp' = Response("admin_mark_processing", "root", NoPk, "StatusNotFound")
            /\ UNCHANGED orders
       ELSE
            /\ orders' = [o \in DOMAIN orders |->
                            IF o \in sel
                            THEN [orders[o] EXCEPT !.status = "processing",
                                                   !.completed_at = None]
                            ELSE orders[o]]
            /\ resp' = Response("admin_mark_processing", "root", NoPk, "OK")
    /\ UNCHANGED <<now, statusRows, links, reviews, req, cartVars, gone, prices>>

\* The rows OrderAdmin.mark_completed updates:
\* queryset.exclude(status__status_name__in=['completed', 'cancelled'])
ToComplete(sel) == {o \in sel : orders[o].status \notin Terminal}

\* OrderAdmin.mark_completed
AdminMarkCompleted(sel) ==
    /\ IF "completed" \notin statusRows THEN
            /\ resp' = Response("admin_mark_completed", "root", NoPk, "StatusNotFound")
            /\ UNCHANGED orders
       ELSE
            /\ orders' = [o \in DOMAIN orders |->
                            IF o \in ToComplete(sel)
                            THEN [orders[o] EXCEPT !.status = "completed",
                                                   !.completed_at = now]
                            ELSE orders[o]]
            /\ resp' = Response("admin_mark_completed", "root", NoPk, "OK")
    /\ UNCHANGED <<now, statusRows, links, reviews, req, cartVars, gone, prices>>

\* OrderStatusAdmin add view: status_name is unique.
AdminAddStatus(s) ==
    /\ s \notin statusRows
    /\ statusRows' = statusRows \cup {s}
    /\ UNCHANGED <<now, links, orders, reviews, req, resp, cartVars, gone, prices>>

\* OrderStatusAdmin delete view: Order.status is on_delete=PROTECT.
AdminDeleteStatus(s) ==
    /\ s \in statusRows
    /\ \A o \in OrderIds : orders[o].status # s
    /\ statusRows' = statusRows \ {s}
    /\ UNCHANGED <<now, links, orders, reviews, req, resp, cartVars, gone, prices>>

\* ------------------------------------------------------------- reviews
\* Review.rating choices: range(1, 6).
Ratings == 1..5

\* ReviewSerializer.order: a primary key of
\* Order.objects.filter(status__status_name='completed'), or absent / null.
OrderFieldValid(o) ==
    o = NoPk \/ (o \in OrderIds /\ orders[o].status = "completed")

\* Review.objects.filter(user=user, order=order).exists()
Reviewed(u, o) ==
    \E i \in 1..Len(reviews) : reviews[i].user = u /\ reviews[i].order = o

\* Mutation of ReviewGate: the executor of the order is not compared with the
\* executor under review.
ReviewGate_NoExecutorCheck(u, e, o) ==
    IF o # NoPk /\ orders[o].client # u THEN "OrderNotOwned"
    ELSE IF o # NoPk /\ orders[o].status # "completed" THEN "OrderNotCompleted"
    ELSE IF o # NoPk /\ Reviewed(u, o) THEN "DuplicateReview"
    ELSE IF ExecutorUser(e) = u THEN "SelfReview"
    ELSE "OK"

\* ReviewSerializer.validate: the order-bound checks, then the self-review check.
ReviewGate(u, e, o) ==
    IF o # NoPk /\ orders[o].client # u THEN "OrderNotOwned"
    ELSE IF o # NoPk /\ orders[o].executor # e THEN "ExecutorMismatch"
    ELSE IF o # NoPk /\ orders[o].status # "completed" THEN "OrderNotCompleted"
    ELSE IF o # NoPk /\ Reviewed(u, o) THEN "DuplicateReview"
    ELSE IF ExecutorUser(e) = u THEN "SelfReview"
    ELSE "OK"

\* Review rows being inserted by requests that passed validation.
Inserting == {p \in 1..NReq : req[p].pc = "insert"}

\* POST /reviews/, up to the end of serializer.is_valid(): the field checks
\* (order in the queryset of completed orders, rating among the choices),
\* then validate() with its reads of the order and of the existing reviews.
BeginReview(p, u, e, o, rating) ==
    /\ req[p].pc = "idle"
    /\ Len(reviews) + Cardinality(Inserting) < MaxReviews
    /\ IF ~OrderFieldValid(o) \/ rating \notin Ratings THEN
            /\ resp' = Response("review", u, o, "InvalidField")
            /\ UNCHANGED req
       ELSE IF ReviewGate(u, e, o) # "OK" THEN
            /\ resp' = Response("review", u, o, ReviewGate(u, e, o))
            /\ UNCHANGED req
       ELSE
            /\ req' = [req EXCEPT ![p] =
                         [pc |-> "insert", op |-> "review", user |-> u,
                          executor |-> e, order |-> o]]
            /\ UNCHANGED resp
    /\ UNCHANGED <<now, statusRows, links, orders, reviews, cartVars, gone, prices>>

\* serializer.save(): the INSERT. The Review table declares no uniqueness.
InsertReview(p) ==
    /\ req[p].pc = "insert"
    /\ reviews' = Append(reviews, [user |-> req[p].user,
                                   executor |-> req[p].executor,
                                   order |-> req[p].order])
    /\ resp' = Response("review", req[p].user, req[p].order, "Created")
    /\ req' = [req EXCEPT ![p] = Idle]
    /\ UNCHANGED <<now, statusRows, links, orders, cartVars, gone, prices>>

\* ---------------------------------------------------------------- carts
\* The users whose carts are followed.
CartUsers == {"ann", "eva"}

\* Cart.objects.filter(user=u): the Cart rows of a user.
CartsOf(u) == {r \in carts : r.user = u}

\* The users that have a Cart row.
CartOwners == {r.user : r \in carts}

\* The row an INSERT into Cart makes for a user; the auto primary key only
\* tells rows apart, which nth does among the rows of one user, and CartItem
\* rows name their cart by its user.
CartRow(u) == [user |-> u, nth |-> Cardinality(CartsOf(u)) + 1]

\* Mutation of CanInsertCart: Cart.user is a plain foreign key.
CanInsertCart_NotUnique(u) == TRUE

\* Cart.user is a OneToOneField (unique): the INSERT succeeds only when the
\* user has no Cart row.
CanInsertCart(u) == CartsOf(u) = {}

\* Cart.objects.get_or_create(user=u) run without another request between
\* its statements: the table it leaves.
get_or_create(u) ==
    IF CartsOf(u) # {} THEN carts
    ELSE IF CanInsertCart(u) THEN carts \cup {CartRow(u)}
    ELSE carts

\* CartItem.objects.get(cart=cart, service=service)
LineOf(c, s) == {r \in items : r.cart = c /\ r.service = s}

\* Mutation of ItemOf: the row is looked up by primary key alone.
ItemOf_AnyCart(c, pk) == {r \in items : r.pk = pk}

\* CartItem.objects.get(pk=item_pk, cart=cart)
ItemOf(c, pk) == {r \in items : r.cart = c /\ r.pk = pk}

\* Mutation of CanInsert: the table has no unique_together.
CanInsert_NoConstraint(c, s) == TRUE

\* CartItem.Meta.unique_together = (('cart', 'service'),): the INSERT succeeds
\* only when no row has the pair.
CanInsert(c, s) == LineOf(c, s) = {}

\* Mutation of NewQuantity: the quantity is assigned, not incremented.
NewQuantity_Assigned(current, q) == q

\* cart_item.quantity = F('quantity') + quantity: evaluated by the UPDATE on
\* the row's current quantity.
NewQuantity(current, q) == current + q

\* What a worker keeps of a request that was answered: the quantity an
\* add_item asked for (0 for the other operations) and the answer.
Answered(q, result) == [pc |-> "done", quantity |-> q, result |-> result]

\* The handler of worker p returns.
Done(p, q, result) == req' = [req EXCEPT ![p] = Answered(q, result)]

\* A worker takes its next request.
Free(p) == req[p].pc \in {"idle", "done"}

\* add_item up to the get of get_or_create: get_object() (the user's Cart row
\* is created if missing), the serializer's checks of service_id and
\* quantity, then the SELECT of the line.
AddBegin(p, u, s, q) ==
    /\ Free(p)
    /\ carts' = get_or_create(u)
    /\ IF s \notin Services \/ q < 1 THEN
            Done(p, q, "ValidationError")
       ELSE IF LineOf(u, s) = {} THEN
            req' = [req EXCEPT ![p] =
                      [pc |-> "create", user |-> u, service |-> s,
                       item |-> NoPk, quantity |-> q]]
       ELSE
            \E r \in LineOf(u, s) :
                req' = [req EXCEPT ![p] =
                          [pc |-> "update", user |-> u, service |-> s,
                           item |-> r.pk, quantity |-> q]]
    /\ UNCHANGED <<now, statusRows, links, orders, reviews, items, nextItem, items0, resp, gone, prices>>

\* The create of get_or_create: the INSERT, or its IntegrityError.
AddCreate(p) ==
    /\ req[p].pc = "create"
    /\ IF CanInsert(req[p].user, req[p].service) THEN
            /\ nextItem <= MaxItems
            /\ items' = items \cup {[pk |-> nextItem, cart |-> req[p].user,
                                     service |-> req[p].service,
                                     quantity |-> req[p].quantity]}
            /\ nextItem' = nextItem + 1
            /\ Done(p, req[p].quantity, "Created")
       ELSE
            /\ req' = [req EXCEPT ![p].pc = "reget"]
            /\ UNCHANGED <<items, nextItem>>
    /\ UNCHANGED <<now, statusRows, links, orders, reviews, carts, items0, resp, gone, prices>>

\* get_or_create after the IntegrityError: the SELECT again; the error is
\* raised again when the row is not there.
AddReget(p) ==
    /\ req[p].pc = "reget"
    /\ IF LineOf(req[p].user, req[p].service) = {} THEN
            Done(p, req[p].quantity, "ServerError")
       ELSE
            \E r \in LineOf(req[p].user, req[p].service) :
                req' = [req EXCEPT ![p].pc = "update", ![p].item = r.pk]
    /\ UNCHANGED <<now, statusRows, links, orders, reviews, cartVars, resp, gone, prices>>

\* cart_item.save(update_fields=['quantity']): one UPDATE by pk, which raises
\* when it matches no row.
AddUpdate(p) ==
    /\ req[p].pc = "update"
    /\ IF \E r \in items : r.pk = req[p].item THEN
            \E r \in items :
                /\ r.pk = req[p].item
                /\ items' = (items \ {r}) \cup
                       {[r EXCEPT !.quantity = NewQuantity(r.quantity, req[p].quantity)]}
                /\ req' = [req EXCEPT ![p].pc = "refresh"]
       ELSE
            /\ Done(p, req[p].quantity, "ServerError")
            /\ UNCHANGED items
    /\ UNCHANGED <<now, statusRows, links, orders, reviews, carts, nextItem, items0, resp, gone, prices>>

\* cart_item.refresh_from_db(), cart.save() and the response.
AddRefresh(p) ==
    /\ req[p].pc = "refresh"
    /\ IF \E r \in items : r.pk = req[p].item
          THEN Done(p, req[p].quantity, "Updated")
          ELSE Done(p, req[p].quantity, "ServerError")
    /\ UNCHANGED <<now, statusRows, links, orders, reviews, cartVars, resp, gone, prices>>

\* Mutation of SetBegin: the quantity is saved before it is tested.
SetBegin_SavesBeforeTest(p, u, pk, q) ==
    /\ Free(p)
    /\ carts' = get_or_create(u)
    /\ IF ItemOf(u, pk) = {} THEN
            Done(p, 0, "NotFound") /\ UNCHANGED items
       ELSE IF q <= 0 THEN
            /\ items' = {IF r.pk = pk THEN [r EXCEPT !.quantity = q] ELSE r : r \in items}
            /\ Done(p, 0, "InvalidQuantity")
       ELSE
            /\ req' = [req EXCEPT ![p] =
                         [pc |-> "set", user |-> u, item |-> pk, quantity |-> q]]
            /\ UNCHANGED items
    /\ UNCHANGED <<now, statusRows, links, orders, reviews, nextItem, items0, resp, gone, prices>>

\* Mutation of SetBegin: only a quantity below 0 is refused.
SetBegin_ZeroAllowed(p, u, pk, q) ==
    /\ Free(p)
    /\ carts' = get_or_create(u)
    /\ IF ItemOf(u, pk) = {} THEN
            Done(p, 0, "NotFound")
       ELSE IF q < 0 THEN
            Done(p, 0, "InvalidQuantity")
       ELSE
            req' = [req EXCEPT ![p] =
                      [pc |-> "set", user |-> u, item |-> pk, quantity |-> q]]
    /\ UNCHANGED <<now, statusRows, links, orders, reviews, items, nextItem, items0, resp, gone, prices>>

\* update_item_quantity up to the write: get_object(), get_object_or_404 of
\* the item in the caller's cart, and the test of the quantity.
SetBegin(p, u, pk, q) ==
    /\ Free(p)
    /\ carts' = get_or_create(u)
    /\ IF ItemOf(u, pk) = {} THEN
            Done(p, 0, "NotFound")
       ELSE IF q <= 0 THEN
            Done(p, 0, "InvalidQuantity")
       ELSE
            req' = [req EXCEPT ![p] =
                      [pc |-> "set", user |-> u, item |-> pk, quantity |-> q]]
    /\ UNCHANGED <<now, statusRows, links, orders, reviews, items, nextItem, items0, resp, gone, prices>>

\* Mutation of SetWrite: the quantity is added to the row's quantity.
SetWrite_AddsQuantity(p) ==
    /\ req[p].pc = "set"
    /\ IF \E r \in items : r.pk = req[p].item THEN
            /\ \E r \in items :
                  /\ r.pk = req[p].item
                  /\ items' = (items \ {r}) \cup
                                {[r EXCEPT !.quantity = @ + req[p].quantity]}
            /\ Done(p, 0, "OK")
       ELSE
            /\ Done(p, 0, "ServerError")
            /\ UNCHANGED items
    /\ UNCHANGED <<now, statusRows, links, orders, reviews, carts, nextItem, items0, resp, gone, prices>>

\* cart_item.save(update_fields=['quantity']) of update_item_quantity; its
\* failure is answered 500 by the handler's except Exception.
SetWrite(p) ==
    /\ req[p].pc = "set"
    /\ IF \E r \in items : r.pk = req[p].item THEN
            /\ \E r \in items :
                  /\ r.pk = req[p].item
                  /\ items' = (items \ {r}) \cup {[r EXCEPT !.quantity = req[p].quantity]}
            /\ Done(p, 0, "OK")
       ELSE
            /\ Done(p, 0, "ServerError")
            /\ UNCHANGED items
    /\ UNCHANGED <<now, statusRows, links, orders, reviews, carts, nextItem, items0, resp, gone, prices>>

\* remove_item up to the delete: get_object() and get_object_or_404.
RemoveBegin(p, u, pk) ==
    /\ Free(p)
    /\ carts' = get_or_create(u)
    /\ IF ItemOf(u, pk) = {} THEN
            Done(p, 0, "NotFound")
       ELSE
            req' = [req EXCEPT ![p] = [pc |-> "delete", user |-> u, item |-> pk]]
    /\ UNCHANGED <<now, statusRows, links, orders, reviews, items, nextItem, items0, resp, gone, prices>>

\* cart_item.delete(): DELETE by pk, which matches no row if it is gone.
RemoveDelete(p) ==
    /\ req[p].pc = "delete"
    /\ items' = {r \in items : r.pk # req[p].item}
    /\ Done(p, 0, "Deleted")
    /\ UNCHANGED <<now, statusRows, links, orders, reviews, carts, nextItem, items0, resp, gone, prices>>

\* Mutation of ClearCart: every CartItem row is deleted.
ClearCart_AllItems(p, u) ==
    /\ Free(p)
    /\ carts' = get_or_create(u)
    /\ items' = {}
    /\ Done(p, 0, "Cleared")
    /\ UNCHANGED <<now, statusRows, links, orders, reviews, nextItem, items0, resp, gone, prices>>

\* clear_cart: get_object() and cart.items.all().delete().
ClearCart(p, u) ==
    /\ Free(p)
    /\ carts' = get_or_create(u)
    /\ items' = {r \in items : r.cart # u}
    /\ Done(p, 0, "Cleared")
    /\ UNCHANGED <<now, statusRows, links, orders, reviews, nextItem, items0, resp, gone, prices>>

\* What a worker keeps of an answered GET /cart/: the Cart row that
\* get_or_create returned, and whether it inserted it.
Got(cart, created) ==
    [pc |-> "done", quantity |-> 0, result |-> "OK", cart |-> cart,
     created |-> created]

\* GET /cart/ (list): get_object() and the response. First statement of
\* get_or_create: self.get(user=u), which raises MultipleObjectsReturned
\* when it finds two rows.
ListGet(p, u) ==
    /\ Free(p)
    /\ IF Cardinality(CartsOf(u)) > 1 THEN Done(p, 0, "ServerError")
       ELSE IF CartsOf(u) # {} THEN
            \E r \in CartsOf(u) : req' = [req EXCEPT ![p] = Got(r, FALSE)]
       ELSE req' = [req EXCEPT ![p] = [pc |-> "cart_create", user |-> u]]
    /\ UNCHANGED <<now, statusRows, links, orders, reviews, cartVars, resp, gone, prices>>

\* The create of get_or_create: the INSERT, or its IntegrityError.
ListCreate(p) ==
    /\ req[p].pc = "cart_create"
    /\ IF CanInsertCart(req[p].user) THEN
            /\ carts' = carts \cup {CartRow(req[p].user)}
            /\ req' = [req EXCEPT ![p] = Got(CartRow(req[p].user), TRUE)]
       ELSE
            /\ req' = [req EXCEPT ![p].pc = "cart_reget"]
            /\ UNCHANGED carts
    /\ UNCHANGED <<now, statusRows, links, orders, reviews, items, nextItem, items0, resp, gone, prices>>

\* get_or_create after the IntegrityError: self.get(user=u) again.
ListReget(p) ==
    /\ req[p].pc = "cart_reget"
    /\ IF Cardinality(CartsOf(req[p].user)) = 1 THEN
            \E r \in CartsOf(req[p].user) : req' = [req EXCEPT ![p] = Got(r, FALSE)]
       ELSE Done(p, 0, "ServerError")
    /\ UNCHANGED <<now, statusRows, links, orders, reviews, cartVars, resp, gone, prices>>

\* ServiceViewSet.update / partial_update: a new price for a service.
SetPrice(s, v) ==
    /\ prices[s] # v
    /\ prices' = [prices EXCEPT ![s] = v]
    /\ UNCHANGED <<now, statusRows, links, orders, gone, reviews, cartVars, req, resp>>

\* custom_price values the admin gives a catalog link: none, zero, and one
\* between the two base prices.
CustomPrices == {None, 0, 180}

\* ExecutorServiceAdmin change view: a new custom_price for a link.
AdminSetCustomPrice(e, s, v) ==
    /\ <<e, s>> \in DOMAIN links
    /\ links[<<e, s>>] # v
    /\ links' = [links EXCEPT ![<<e, s>>] = v]
    /\ UNCHANGED <<now, statusRows, prices, orders, gone, reviews, cartVars, req, resp>>

\* Mutation of get_effective_price: custom_price is tested for truth.
get_effective_price_Truthy(e, s) ==
    IF links[<<e, s>>] # None /\ links[<<e, s>>] # 0
    THEN links[<<e, s>>] ELSE prices[s]

\* ExecutorService.get_effective_price of the link (e, s): custom_price if
\* it is not None, else service.price.
get_effective_price(e, s) ==
    IF links[<<e, s>>] # None THEN links[<<e, s>>] ELSE prices[s]

\* cart.items: the CartItem rows of a cart.
CartItems(c) == {r \in items : r.cart = c}

\* SUM(quantity * service.price) and SUM(quantity) over rows, summed row by
\* row; the SQL aggregates are NULL when there is no row.
RECURSIVE SumCost(_)
SumCost(rows) ==
    IF rows = {} THEN 0
    ELSE LET r == CHOOSE x \in rows : TRUE IN
         r.quantity * prices[r.service] + SumCost(rows \ {r})

RECURSIVE SumQuantity(_)
SumQuantity(rows) ==
    IF rows = {} THEN 0
    ELSE LET r == CHOOSE x \in rows : TRUE IN
         r.quantity + SumQuantity(rows \ {r})

AggregateCost(rows) == IF rows = {} THEN None ELSE SumCost(rows)

AggregateQuantity(rows) == IF rows = {} THEN None ELSE SumQuantity(rows)

\* Mutation of get_total_cost: the aggregate is returned as it is.
get_total_cost_NoDefault(c) == AggregateCost(CartItems(c))

\* Cart.get_total_cost: aggregation['total'] if it is not None, else 0.
get_total_cost(c) ==
    IF AggregateCost(CartItems(c)) # None THEN AggregateCost(CartItems(c)) ELSE 0

\* Cart.get_total_items_count
get_total_items_count(c) ==
    IF AggregateQuantity(CartItems(c)) # None
    THEN AggregateQuantity(CartItems(c)) ELSE 0

\* Cart.get_total_positions_count: self.items.count()
get_total_positions_count(c) == Cardinality(CartItems(c))

\* ------------------------------------------------------------------ Spec
\* Catalog: E1 offers s1 at a custom price, E2 offers s2 at the base price.
Init ==
    /\ now = 0
    /\ statusRows = Statuses
    /\ links = (<<"E1", "s1">> :> 180) @@ (<<"E2", "s2">> :> None)
    /\ prices = InitialPrices
    /\ orders = <<>>
    /\ gone = {}
    /\ reviews = <<>>
    /\ carts = {}
    /\ items = {}
    /\ nextItem = 1
    /\ items0 = {}
    /\ req = [p \in 1..NReq |-> Idle]
    /\ resp = Response(Null, Null, NoPk, Null)

\* The order API under concurrent requests, and the admin's bulk actions on
\* orders, with the four status rows of the seed data in place.
Next ==
    \/ \E u \in Users, e \in Executors \cup {Null}, s \in Services,
          sched \in (0..MaxTime + 1) \cup {Omitted} : CreateOrder(u, e, s, sched)
    \/ \E p \in 1..NReq, op \in OrderOps, u \in Users, o \in 1..MaxOrders + 1 :
          BeginTransition(p, op, u, o)
    \/ \E p \in 1..NReq : FinishTransition(p)
    \/ \E sel \in SUBSET OrderIds : AdminMarkProcessing(sel)
    \/ \E sel \in SUBSET OrderIds : AdminMarkCompleted(sel)

Spec == Init /\ [][Next]_vars

\* One request at a time, with the admin also adding and deleting status rows.
NextConfig ==
    \/ \E u \in Users, e \in Executors \cup {Null}, s \in Services,
          sched \in (0..MaxTime + 1) \cup {Omitted} : CreateOrder(u, e, s, sched)
    \/ \E op \in OrderOps, u \in Users, o \in 1..MaxOrders + 1 :
          BeginTransition(1, op, u, o)
    \/ FinishTransition(1)
    \/ \E sel \in SUBSET OrderIds : AdminMarkProcessing(sel)
    \/ \E sel \in SUBSET OrderIds : AdminMarkCompleted(sel)
    \/ \E s \in Statuses : AdminAddStatus(s)
    \/ \E s \in Statuses : AdminDeleteStatus(s)

SpecConfig == Init /\ [][NextConfig]_vars

\* Order creation alone, as the clock advances and status rows come and go.
NextCreate ==
    \/ Tick
    \/ \E u \in Users, e \in Executors \cup {Null}, s \in Services,
          sched \in (0..MaxTime + 1) \cup {Omitted} : CreateOrder(u, e, s, sched)
    \/ \E s \in Statuses : AdminAddStatus(s)
    \/ \E s \in Statuses : AdminDeleteStatus(s)

SpecCreate == Init /\ [][NextCreate]_vars

\* The requests of the order API that write whole rows: create, update,
\* partial update and destroy, with a destroy possible between the read and
\* the save of an update.
NextWrite ==
    \/ \E u \in Users, body \in Bodies : PostOrder(u, body)
    \/ \E u \in Users, o \in 1..MaxOrders, partial \in BOOLEAN, body \in Bodies :
          BeginUpdate(1, u, o, partial, body)
    \/ FinishUpdate(1)
    \/ \E u \in Users, o \in 1..MaxOrders : DestroyOrder(u, o)

SpecWrite == Init /\ [][NextWrite]_vars

\* Order rows that the order API and the admin actions leave behind: any
\* creator, no executor or one that offers the service, any status, and
\* completed_at set with the closed statuses.
OrderRows ==
    {[client |-> u, executor |-> e, service |-> s, status |-> st,
      completed_at |-> IF st \in Terminal THEN 0 ELSE None] :
        u \in Users, st \in Statuses,
        e \in Executors \cup {Null}, s \in Services}

\* The most orders a listing starts from.
MaxListed == 2

\* Rows of orders just created by ann or eva: without executor, or with the
\* user's own or the other user's executor profile.
ListedRows ==
    {NewOrder(u, e, IF e = "E2" THEN "s2" ELSE "s1") :
        u \in CartUsers, e \in Executors \cup {Null}}

\* Listing and retrieving orders and moving them on, one request at a time,
\* over any new orders already there.
InitRead ==
    /\ now = 0
    /\ statusRows = Statuses
    /\ links = (<<"E1", "s1">> :> 180) @@ (<<"E2", "s2">> :> None)
    /\ prices = InitialPrices
    /\ \E n \in 0..MaxListed : orders \in [1..n -> ListedRows]
    /\ gone = {}
    /\ reviews = <<>>
    /\ carts = {}
    /\ items = {}
    /\ nextItem = 1
    /\ items0 = {}
    /\ req = [p \in 1..NReq |-> Idle]
    /\ resp = Response(Null, Null, NoPk, Null)

NextRead ==
    \/ \E u \in Users : ListOrders(u)
    \/ \E u \in Users, o \in 1..MaxListed + 1 : RetrieveOrder(u, o)
    \/ \E op \in OrderOps, u \in Users, o \in 1..MaxListed + 1 :
          BeginTransition(1, op, u, o)
    \/ FinishTransition(1)

SpecRead == InitRead /\ [][NextRead]_vars

\* The review API under concurrent requests, over any orders already there.
InitReview ==
    /\ now = 0
    /\ statusRows = Statuses
    /\ links = (<<"E1", "s1">> :> 180) @@ (<<"E2", "s2">> :> None)
    /\ prices = InitialPrices
    /\ \E n \in 0..MaxOrders :
          orders \in [1..n -> {r \in OrderRows :
                                  r.executor = Null \/ Offers(r.executor, r.service)}]
    /\ gone = {}
    /\ reviews = <<>>
    /\ carts = {}
    /\ items = {}
    /\ nextItem = 1
    /\ items0 = {}
    /\ req = [p \in 1..NReq |-> Idle]
    /\ resp = Response(Null, Null, NoPk, Null)

NextReview ==
    \/ \E p \in 1..NReq, u \in Users, e \in Executors, o \in 0..MaxOrders + 1,
          rating \in {0, 1, 5, 6} : BeginReview(p, u, e, o, rating)
    \/ \E p \in 1..NReq : InsertReview(p)

SpecReview == InitReview /\ [][NextReview]_vars

\* Reviews written while the orders they name are moved on and bulk-edited
\* by the admin, one request at a time.
NextReviewed ==
    \/ \E u \in Users, e \in Executors, o \in 0..MaxOrders :
          BeginReview(1, u, e, o, 5)
    \/ InsertReview(1)
    \/ \E op \in OrderOps, u \in Users, o \in 1..MaxOrders :
          BeginTransition(1, op, u, o)
    \/ FinishTransition(1)
    \/ \E sel \in SUBSET OrderIds : AdminMarkProcessing(sel)
    \/ \E sel \in SUBSET OrderIds : AdminMarkCompleted(sel)

SpecReviewed == InitReview /\ [][NextReviewed]_vars

\* The cart API under concurrent requests.
NextCart ==
    \/ \E p \in 1..NReq, u \in CartUsers, s \in Services \cup {Null}, q \in 0..MaxAdd :
          AddBegin(p, u, s, q)
    \/ \E p \in 1..NReq : AddCreate(p)
    \/ \E p \in 1..NReq : AddReget(p)
    \/ \E p \in 1..NReq : AddUpdate(p) /\ \A r \in items' : r.quantity <= MaxQty
    \/ \E p \in 1..NReq : AddRefresh(p)
    \/ \E p \in 1..NReq, u \in CartUsers, pk \in 1..MaxItems, q \in 0..MaxAdd :
          SetBegin(p, u, pk, q)
    \/ \E p \in 1..NReq : SetWrite(p)
    \/ \E p \in 1..NReq, u \in CartUsers, pk \in 1..MaxItems : RemoveBegin(p, u, pk)
    \/ \E p \in 1..NReq : RemoveDelete(p)
    \/ \E p \in 1..NReq, u \in CartUsers : ClearCart(p, u)

SpecCart == Init /\ [][NextCart]_vars

\* The whole API, one part per behaviour: the order and review requests share
\* rows with each other but none with the cart requests, so a behaviour is
\* either order and review traffic (one request at a time) or concurrent
\* cart traffic.
NextApi ==
    \/ /\ carts = {}
       /\ \/ \E u \in Users, e \in Executors \cup {Null}, s \in Services,
                sched \in {0, Omitted} : CreateOrder(u, e, s, sched)
          \/ \E op \in OrderOps, u \in Users, o \in 1..MaxOrders + 1 :
                BeginTransition(1, op, u, o)
          \/ FinishTransition(1)
          \/ \E u \in Users, e \in Executors, o \in 0..MaxOrders + 1,
                rating \in {0, 5} : BeginReview(1, u, e, o, rating)
          \/ InsertReview(1)
    \/ /\ orders = <<>>
       /\ resp.op = Null
       /\ NextCart

SpecApi == Init /\ [][NextApi]_vars

\* The cart API with GET /cart/ among the concurrent requests; get_or_create
\* is followed statement by statement in GET /cart/ and as one step in the
\* other handlers.
NextCartRows ==
    \/ \E p \in 1..NReq, u \in CartUsers : ListGet(p, u)
    \/ \E p \in 1..NReq : ListCreate(p)
    \/ \E p \in 1..NReq : ListReget(p)
    \/ \E p \in 1..NReq, u \in CartUsers, s \in Services, q \in 0..1 :
          AddBegin(p, u, s, q)
    \/ \E p \in 1..NReq : AddCreate(p)
    \/ \E p \in 1..NReq : AddReget(p)
    \/ \E p \in 1..NReq : AddUpdate(p) /\ \A r \in items' : r.quantity <= MaxQty
    \/ \E p \in 1..NReq : AddRefresh(p)
    \/ \E p \in 1..NReq, u \in CartUsers, pk \in 1..MaxItems, q \in 0..1 :
          SetBegin(p, u, pk, q)
    \/ \E p \in 1..NReq : SetWrite(p)
    \/ \E p \in 1..NReq, u \in CartUsers, pk \in 1..MaxItems : RemoveBegin(p, u, pk)
    \/ \E p \in 1..NReq : RemoveDelete(p)
    \/ \E p \in 1..NReq, u \in CartUsers : ClearCart(p, u)

SpecCartRows == Init /\ [][NextCartRows]_vars

\* Orders created and moved on, one request at a time, while base prices
\* and custom prices are changed.
NextPrice ==
    \/ \E u \in Users, e \in Executors \cup {Null}, s \in Services :
          CreateOrder(u, e, s, Omitted)
    \/ \E op \in OrderOps, u \in Users, o \in 1..MaxOrders :
          BeginTransition(1, op, u, o)
    \/ FinishTransition(1)
    \/ \E s \in Services, v \in PriceValues : SetPrice(s, v)
    \/ \E e \in Executors, s \in Services, v \in CustomPrices :
          AdminSetCustomPrice(e, s, v)

SpecPrice == Init /\ [][NextPrice]_vars

\* Cart requests one at a time, and price changes of the services.
NextTotals ==
    \/ \E u \in CartUsers, s \in Services \cup {Null}, q \in 0..MaxAdd :
          AddBegin(1, u, s, q)
    \/ AddCreate(1)
    \/ AddUpdate(1) /\ \A r \in items' : r.quantity <= MaxQty
    \/ AddRefresh(1)
    \/ \E u \in CartUsers, pk \in 1..MaxItems, q \in 0..MaxAdd : SetBegin(1, u, pk, q)
    \/ SetWrite(1)
    \/ \E u \in CartUsers, pk \in 1..MaxItems : RemoveBegin(1, u, pk)
    \/ RemoveDelete(1)
    \/ \E u \in CartUsers : ClearCart(1, u)
    \/ \E s \in Services, v \in PriceValues : SetPrice(s, v)

SpecTotals == Init /\ [][NextTotals]_vars

\* Two add_item requests for one service of one cart, one per worker, on a
\* cart that has the line or not.
InitAddAdd ==
    /\ now = 0
    /\ statusRows = Statuses
    /\ links = (<<"E1", "s1">> :> 180) @@ (<<"E2", "s2">> :> None)
    /\ prices = InitialPrices
    /\ orders = <<>>
    /\ gone = {}
    /\ reviews = <<>>
    /\ carts = {[user |-> "ann", nth |-> 1]}
    /\ items0 \in {{}} \cup {{[pk |-> 1, cart |-> "ann", service |-> "s1",
                               quantity |-> q0]} : q0 \in 1..MaxAdd}
    /\ items = items0
    /\ nextItem = Cardinality(items0) + 1
    /\ req = [p \in 1..NReq |-> Idle]
    /\ resp = Response(Null, Null, NoPk, Null)

NextAddAdd ==
    \/ \E p \in 1..NReq, q \in 1..MaxAdd :
          req[p].pc = "idle" /\ AddBegin(p, "ann", "s1", q)
    \/ \E p \in 1..NReq : AddCreate(p)
    \/ \E p \in 1..NReq : AddReget(p)
    \/ \E p \in 1..NReq : AddUpdate(p)
    \/ \E p \in 1..NReq : AddRefresh(p)

SpecAddAdd == InitAddAdd /\ [][NextAddAdd]_vars

\* One add_item request for a service that is in the cart (worker 1) and one
\* remove_item or clear request on the same cart (worker 2).
InitAddRemove ==
    /\ now = 0
    /\ statusRows = Statuses
    /\ links = (<<"E1", "s1">> :> 180) @@ (<<"E2", "s2">> :> None)
    /\ prices = InitialPrices
    /\ orders = <<>>
    /\ gone = {}
    /\ reviews = <<>>
    /\ carts = {[user |-> "ann", nth |-> 1]}
    /\ items0 \in {{[pk |-> 1, cart |-> "ann", service |-> "s1",
                     quantity |-> q0]} : q0 \in 1..MaxQty}
    /\ items = items0
    /\ nextItem = Cardinality(items0) + 1
    /\ req = [p \in 1..NReq |-> Idle]
    /\ resp = Response(Null, Null, NoPk, Null)

NextAddRemove ==
    \/ \E q \in 1..MaxAdd : req[1].pc = "idle" /\ AddBegin(1, "ann", "s1", q)
    \/ AddCreate(1)
    \/ AddUpdate(1)
    \/ AddRefresh(1)
    \/ \E pk \in 1..MaxItems : req[2].pc = "idle" /\ RemoveBegin(2, "ann", pk)
    \/ RemoveDelete(2)
    \/ req[2].pc = "idle" /\ ClearCart(2, "ann")

SpecAddRemove == InitAddRemove /\ [][NextAddRemove]_vars

\* ======================================================== order claims
\* The callers claim C1 names: the order's client, the user of its assigned
\* executor, an admin.
IsParty(u, order) ==
    \/ is_staff(u)
    \/ order.client = u
    \/ order.executor # Null /\ ExecutorUser(order.executor) = u

\* The steps of a transition request, read off the worker's slot and the
\* answer: refused at once, admitted to the write, or finished.
Refused(p) ==
    /\ resp' # resp
    /\ resp'.op \in OrderOps
    /\ BeginTransition(p, resp'.op, resp'.user, resp'.order)

Admitted(p) ==
    /\ req[p].pc = "idle"
    /\ req'[p].pc = "write"
    /\ BeginTransition(p, req'[p].op, req'[p].user, req'[p].order)

Finished(p) == req[p].pc = "write" /\ FinishTransition(p)

\* C1 as stated: a transition request on a completed or cancelled order, made
\* by the order's client, its assigned executor or an admin, is never turned
\* away before the status test and is answered InvalidTransition, and the
\* order is left as it was.
C1_AlwaysInvalidTransition ==
    [][\A p \in 1..NReq :
          /\ (/\ Refused(p)
              /\ resp'.order \in OrderIds
              /\ IsParty(resp'.user, orders[resp'.order]))
             => orders[resp'.order].status \notin Terminal
          /\ (Finished(p) /\ req[p].status \in Terminal)
             => (resp'.result = "InvalidTransition" /\ orders' = orders)
      ]_vars

\* C1 as amended: such a request is always rejected and never changes the
\* order; the answer is Forbidden when the caller may not perform that
\* transition (mark_as_processing / mark_as_completed by someone who is
\* neither admin nor the assigned executor's user, cancel by a non-admin),
\* otherwise "status not found" (404) when the target status row is missing,
\* otherwise InvalidTransition.
C1_RejectedOnTerminal ==
    [][\A p \in 1..NReq :
          /\ (/\ Refused(p)
              /\ resp'.order \in OrderIds
              /\ IsParty(resp'.user, orders[resp'.order])
              /\ orders[resp'.order].status \in Terminal)
             => /\ resp'.result = "Forbidden"
                /\ orders' = orders
                /\ IF resp'.op = "cancel" THEN ~is_staff(resp'.user)
                   ELSE /\ ~is_staff(resp'.user)
                        /\ \/ orders[resp'.order].executor = Null
                           \/ ExecutorUser(orders[resp'.order].executor) # resp'.user
          /\ (Admitted(p) /\ orders[req'[p].order].status \in Terminal)
             => /\ req'[p].status = orders[req'[p].order].status
                /\ orders' = orders
          /\ (Finished(p) /\ req[p].status \in Terminal)
             => /\ orders' = orders
                /\ resp' = Response(req[p].op, req[p].user, req[p].order,
                              IF TargetStatus(req[p].op) \in statusRows
                              THEN "InvalidTransition" ELSE "StatusNotFound")
      ]_vars

\* C1 witness: a transition on a terminal order was just answered InvalidTransition.
C1_Witness ==
    /\ resp.op \in OrderOps
    /\ resp.result = "InvalidTransition"
    /\ orders[resp.order].status \in Terminal

\* C2: once an order is completed or cancelled, no step changes its status.
C2_TerminalIsFinal ==
    [][\A o \in OrderIds :
          orders[o].status \in Terminal => orders'[o].status = orders[o].status
      ]_vars

\* C3: completed_at is set exactly when the status is completed or cancelled.
C3_CompletedAtIffTerminal ==
    \A o \in OrderIds :
        (orders[o].completed_at # None) <=> (orders[o].status \in Terminal)

\* C3 witness: an order that cancel has just closed carries its completion time.
C3_Witness ==
    /\ resp.op = "cancel"
    /\ resp.result = "OK"
    /\ resp.order = 1
    /\ orders[1].status = "cancelled"
    /\ orders[1].completed_at # None

\* C4: an order that the last answered transition request has just made
\* completed or cancelled is not overwritten by another request finishing
\* with what it read earlier.
C4_CheckAndWriteAtomic ==
    [][\A p \in 1..NReq :
          (/\ FinishTransition(p)
           /\ resp.op \in OrderOps
           /\ resp.result = "OK"
           /\ resp.order = req[p].order
           /\ orders[req[p].order].status \in Terminal
           /\ orders[req[p].order].status = TargetStatus(resp.op))
          => orders' = orders
      ]_vars

\* C10: order creation answers ExecutorDoesNotOfferService, and inserts
\* nothing, exactly when an executor is named that has no catalog link to the
\* service; with no executor or a linked one the catalog check passes.
C10_CatalogCheck ==
    [][\A u \in Users, e \in Executors \cup {Null}, s \in Services,
          sched \in (0..MaxTime + 1) \cup {Omitted} :
          CreateOrder(u, e, s, sched) =>
              IF e # Null /\ <<e, s>> \notin DOMAIN links
              THEN resp'.result = "ExecutorDoesNotOfferService" /\ orders' = orders
              ELSE resp'.result # "ExecutorDoesNotOfferService"
      ]_vars

\* C10 witness: a creation naming an executor without the link was refused
\* and no order was inserted.
C10_Witness ==
    /\ resp.op = "create"
    /\ resp.result = "ExecutorDoesNotOfferService"
    /\ orders = <<>>

\* C11: order creation with a scheduled_at not later than the current time is
\* answered with a validation error (the schedule error when the catalog
\* check passes) and inserts nothing; with a later scheduled_at, or with
\* scheduled_at omitted, the schedule check passes.
C11_ScheduleCheck ==
    [][\A u \in Users, e \in Executors \cup {Null}, s \in Services,
          sched \in (0..MaxTime + 1) \cup {Omitted} :
          CreateOrder(u, e, s, sched) =>
              IF sched # Omitted /\ sched <= now
              THEN /\ orders' = orders
                   /\ resp'.result \in {"ScheduledTimeInPast",
                                        "ExecutorDoesNotOfferService"}
                   /\ (e = Null \/ <<e, s>> \in DOMAIN links)
                         => resp'.result = "ScheduledTimeInPast"
              ELSE resp'.result # "ScheduledTimeInPast"
      ]_vars

\* C11 witness: after the clock has advanced, a creation was refused for its
\* schedule and no order was inserted.
C11_Witness ==
    /\ now > 0
    /\ resp.op = "create"
    /\ resp.result = "ScheduledTimeInPast"
    /\ orders = <<>>

\* C12: an order inserted by a create request has status new, no
\* completed_at, and the requester as client, whatever the body carries.
C12_CreatedAsNew ==
    [][Len(orders') > Len(orders) =>
          /\ Len(orders') = Len(orders) + 1
          /\ orders'[Len(orders')].status = "new"
          /\ orders'[Len(orders')].completed_at = None
          /\ \A u \in Users, body \in Bodies :
                PostOrder(u, body) => orders'[Len(orders')].client = u
      ]_vars

\* C12 witness: an order was just created by a user other than the client
\* that request bodies name, and that user is its client.
C12_Witness ==
    /\ resp.op = "create"
    /\ resp.result = "Created"
    /\ resp.user # "root"
    /\ orders[resp.order].client = resp.user
    /\ orders[resp.order].status = "new"

\* C16: no step changes the client, executor or service of an order.
C16_ReferencesImmutable ==
    [][\A o \in DOMAIN orders :
          /\ orders'[o].client = orders[o].client
          /\ orders'[o].executor = orders[o].executor
          /\ orders'[o].service = orders[o].service
      ]_vars

\* C17: no request of a client or executor removes an order.
C17_NeverDeleted ==
    [][\A o \in OrderIds : o \in OrderIds' \/ is_staff(resp'.user)]_vars

ProgressOps == {"mark_as_processing", "mark_as_completed"}

\* The callers C13 names: an admin, or the user of the assigned executor.
AdminOrExecutor(u, order) ==
    is_staff(u) \/ (order.executor # Null /\ ExecutorUser(order.executor) = u)

\* C13: a mark_as_processing or mark_as_completed request that reads a
\* non-terminal order goes on to the write exactly when the caller is an
\* admin or the user of the assigned executor, and then sets the status;
\* for any other caller it is refused and no order changes.
C13_ProgressByExecutorOrAdmin ==
    [][\A p \in 1..NReq :
          /\ (/\ Refused(p)
              /\ resp'.op \in ProgressOps
              /\ resp'.order \in OrderIds
              /\ orders[resp'.order].status \notin Terminal)
             => /\ ~AdminOrExecutor(resp'.user, orders[resp'.order])
                /\ resp'.result \in {"Forbidden", "NotFound"}
                /\ orders' = orders
          /\ (/\ Admitted(p)
              /\ req'[p].op \in ProgressOps
              /\ orders[req'[p].order].status \notin Terminal)
             => /\ AdminOrExecutor(req'[p].user, orders[req'[p].order])
                /\ orders' = orders
          /\ (/\ Finished(p)
              /\ req[p].op \in ProgressOps
              /\ req[p].status \notin Terminal)
             => /\ resp'.result = "OK"
                /\ orders'[req[p].order].status =
                      (IF req[p].op = "mark_as_processing" THEN "processing"
                       ELSE "completed")
      ]_vars

\* C13 witness: the user of the assigned executor has just moved an order on.
C13_Witness ==
    /\ resp.op \in ProgressOps
    /\ resp.result = "OK"
    /\ ~is_staff(resp.user)
    /\ orders[resp.order].executor # Null
    /\ ExecutorUser(orders[resp.order].executor) = resp.user
    /\ resp.user # orders[resp.order].client

\* C14: a cancel request goes on to the write exactly when the caller is an
\* admin, or is the order's client and reads the order in status new; an
\* admitted request that read status new or processing sets status cancelled
\* and completed_at, one that read a closed status changes nothing; a
\* refused request changes nothing.
C14_CancelByClientOrAdmin ==
    [][\A p \in 1..NReq :
          /\ (/\ Refused(p)
              /\ resp'.op = "cancel"
              /\ resp'.order \in OrderIds)
             => /\ ~is_staff(resp'.user)
                /\ \/ resp'.user # orders[resp'.order].client
                   \/ orders[resp'.order].status # "new"
                /\ resp'.result \in {"Forbidden", "NotFound"}
                /\ orders' = orders
          /\ (Admitted(p) /\ req'[p].op = "cancel")
             => /\ \/ is_staff(req'[p].user)
                   \/ /\ req'[p].user = orders[req'[p].order].client
                      /\ orders[req'[p].order].status = "new"
                /\ orders' = orders
          /\ (Finished(p) /\ req[p].op = "cancel")
             => IF req[p].status \in {"new", "processing"}
                THEN /\ resp'.result = "OK"
                     /\ orders'[req[p].order].status = "cancelled"
                     /\ orders'[req[p].order].completed_at # None
                ELSE /\ resp'.result = "InvalidTransition"
                     /\ orders' = orders
      ]_vars

\* C14 witness: the order's client has just cancelled it.
C14_Witness ==
    /\ resp.op = "cancel"
    /\ resp.result = "OK"
    /\ resp.user = orders[resp.order].client
    /\ ~is_staff(resp.user)
    /\ orders[resp.order].status = "cancelled"
    /\ orders[resp.order].completed_at # None

\* C15: a cancel request on an order in status new by a non-admin user who
\* is not the order's client is answered Forbidden and changes no order.
C15_ForeignCancelForbidden ==
    [][\A p \in 1..NReq :
          /\ (/\ Refused(p)
              /\ resp'.op = "cancel"
              /\ resp'.order \in OrderIds
              /\ orders[resp'.order].status = "new"
              /\ ~is_staff(resp'.user)
              /\ resp'.user # orders[resp'.order].client)
             => (resp'.result = "Forbidden" /\ orders' = orders)
          /\ (/\ Admitted(p)
              /\ req'[p].op = "cancel"
              /\ orders[req'[p].order].status = "new")
             => \/ is_staff(req'[p].user)
                \/ req'[p].user = orders[req'[p].order].client
      ]_vars

\* The orders C23 names for a user: every order for an admin, otherwise the
\* orders of which the user is the client or the user of the assigned executor.
OwnOrders(u) ==
    {o \in OrderIds :
        \/ is_staff(u)
        \/ orders[o].client = u
        \/ orders[o].executor # Null /\ ExecutorUser(orders[o].executor) = u}

\* C23: a listing returns exactly the caller's own orders (every order to an
\* admin); a retrieve finds an order exactly when it is one of them; and a
\* transition request gets past the lookup of the order exactly when it is
\* one of them, and is answered NotFound otherwise.
C23_OwnOrdersOnly ==
    [][/\ (resp' # resp /\ resp'.op = "list")
             => resp'.found = OwnOrders(resp'.user)
       /\ (resp' # resp /\ resp'.op = "retrieve")
             => (resp'.result = "OK" <=> resp'.order \in OwnOrders(resp'.user))
       /\ (resp' # resp /\ resp'.op = "retrieve" /\ resp'.result # "OK")
             => resp'.result = "NotFound"
       /\ Refused(1)
             => (resp'.result = "NotFound" <=> resp'.order \notin OwnOrders(resp'.user))
       /\ Admitted(1) => req'[1].order \in OwnOrders(req'[1].user)
      ]_vars

\* C23 witness: of two orders, a listing has returned to a user who is not
\* an admin the one order that names the user's executor profile, and not the
\* other client's order.
C23_Witness ==
    /\ resp.op = "list"
    /\ ~is_staff(resp.user)
    /\ Cardinality(OrderIds) = 2
    /\ \E o \in OrderIds :
          /\ resp.found = {o}
          /\ orders[o].client # resp.user
          /\ orders[o].executor # Null

\* The status changes C24 lists.
RestPairs ==
    {<<"new", "processing">>, <<"processing", "processing">>,
     <<"new", "completed">>, <<"processing", "completed">>,
     <<"new", "cancelled">>, <<"processing", "cancelled">>}

\* C24: a REST transition that succeeds takes the order's status through one
\* of the six listed changes, one that fails changes no order, and
\* mark_as_completed by the assigned executor on an order in status new
\* succeeds and leaves it completed with completed_at set.
C24_TransitionPairs ==
    [][\A p \in 1..NReq :
          Finished(p) =>
             /\ resp'.result = "OK"
                   => <<orders[req[p].order].status,
                        orders'[req[p].order].status>> \in RestPairs
             /\ resp'.result # "OK" => orders' = orders
             /\ (/\ req[p].op = "mark_as_completed"
                 /\ orders[req[p].order].status = "new"
                 /\ orders[req[p].order].executor # Null
                 /\ ExecutorUser(orders[req[p].order].executor) = req[p].user)
                   => /\ resp'.result = "OK"
                      /\ orders'[req[p].order].status = "completed"
                      /\ orders'[req[p].order].completed_at # None
      ]_vars

\* C25: an order that a create, update or partial update has just written
\* and that has an executor has a catalog link between that executor and
\* its service.
C25_WritesCheckedAgainstCatalog ==
    [][(/\ resp' # resp
        /\ resp'.op \in {"create", "update", "partial_update"}
        /\ resp'.result \in {"Created", "OK"})
          => (orders'[resp'.order].executor # Null
                => <<orders'[resp'.order].executor, orders'[resp'.order].service>>
                      \in DOMAIN links)
      ]_vars

\* C26: a creation or transition that finds its status row missing changes
\* no order and is answered with a status that is neither the one of
\* validation failures nor the one of NotFound.
C26_ConfigurationError ==
    [][(/\ resp' # resp
        /\ resp'.op \in OrderOps \cup {"create"}
        /\ resp'.result = "StatusNotFound")
          => /\ orders' = orders
             /\ HttpStatus(resp'.op, resp'.result)
                   \notin {HttpStatus(resp'.op, "ScheduledTimeInPast"),
                           HttpStatus(resp'.op, "NotFound")}
      ]_vars

\* The part of C26 that holds: such a request changes no order.
C26_NoOrderWritten ==
    [][(resp' # resp /\ resp'.result = "StatusNotFound") => orders' = orders]_vars

\* The answers that are errors of the caller's request (4xx).
Rejections ==
    {"Forbidden", "InvalidTransition", "NotFound", "InvalidField",
     "ExecutorDoesNotOfferService", "ScheduledTimeInPast", "ValidationError",
     "InvalidQuantity", "OrderNotOwned", "ExecutorMismatch",
     "OrderNotCompleted", "DuplicateReview", "SelfReview"}

\* The persisted rows.
Rows == <<orders, gone, reviews, carts, items>>

\* A step in which an order or review request is answered with an error.
OrderRejected == resp' # resp /\ resp'.result \in Rejections

\* A step in which the cart request of worker p is answered with an error.
CartRejected(p) ==
    /\ req'[p] # req[p]
    /\ req'[p].pc = "done"
    /\ req'[p].result \in Rejections

\* C18 as stated: a request answered with an error leaves every persisted
\* row as it was.
C18_RejectionWritesNothing ==
    [][/\ OrderRejected => Rows' = Rows
       /\ \A p \in 1..NReq : CartRejected(p) => Rows' = Rows
      ]_vars

\* C18 as amended: a request answered with an error leaves every order,
\* review and cart item as it was, and every cart too, except that a cart
\* request has created its caller's cart if the caller had none; an order or
\* review request answered with success has applied its write in that step.
C18_RejectionWritesNoItem ==
    [][/\ OrderRejected => Rows' = Rows
       /\ \A p \in 1..NReq :
             CartRejected(p) =>
                /\ <<orders, gone, reviews, items>>' = <<orders, gone, reviews, items>>
                /\ \E u \in CartUsers :
                      /\ carts \subseteq carts'
                      /\ \A r \in carts' \ carts : r.user = u /\ CartsOf(u) = {}
                      /\ \/ \E s \in Services \cup {Null}, q \in 0..MaxAdd :
                               AddBegin(p, u, s, q)
                         \/ \E pk \in 1..MaxItems, q \in 0..MaxAdd :
                               SetBegin(p, u, pk, q)
                         \/ \E pk \in 1..MaxItems : RemoveBegin(p, u, pk)
       /\ (resp' # resp /\ resp'.op = "create" /\ resp'.result = "Created")
             => /\ Len(orders') = Len(orders) + 1
                /\ resp'.order = Len(orders')
       /\ (resp' # resp /\ resp'.op = "review" /\ resp'.result = "Created")
             => Len(reviews') = Len(reviews) + 1
       /\ (resp' # resp /\ resp'.op \in OrderOps /\ resp'.result = "OK")
             => /\ orders'[resp'.order].status = TargetStatus(resp'.op)
                /\ (orders'[resp'.order].completed_at = None)
                      <=> (resp'.op = "mark_as_processing")
      ]_vars

\* C18 witness: a cart request of a user was answered with an error, and the
\* user has a cart and no item.
C18_Witness ==
    \E p \in 1..NReq :
        /\ req[p].pc = "done"
        /\ req[p].result \in Rejections
        /\ carts # {}
        /\ items = {}

\* ======================================================= catalog claims
\* C22: the effective price of a catalog link is its custom_price whenever
\* that is set, be it 0, below or above the base price, and otherwise the
\* current price of the service; no step of an order creation or of a
\* transition changes the effective price of any link.
C22_EffectivePrice ==
    /\ [](\A e \in Executors, s \in Services :
             <<e, s>> \in DOMAIN links =>
                get_effective_price(e, s) =
                   (CASE links[<<e, s>>] = None -> prices[s]
                      [] OTHER -> links[<<e, s>>]))
    /\ [][(orders' # orders \/ resp' # resp \/ req' # req) =>
             /\ DOMAIN links' = DOMAIN links
             /\ \A e \in Executors, s \in Services :
                   <<e, s>> \in DOMAIN links =>
                      get_effective_price(e, s)' = get_effective_price(e, s)
         ]_vars

\* C22 witness: the assigned executor has completed an order for a service
\* that the executor offers at custom price 0, and the link's effective
\* price is 0, below the base price.
C22_Witness ==
    /\ resp.op = "mark_as_completed"
    /\ resp.result = "OK"
    /\ orders[resp.order].executor # Null
    /\ ExecutorUser(orders[resp.order].executor) = resp.user
    /\ links[<<orders[resp.order].executor, orders[resp.order].service>>] = 0
    /\ get_effective_price(orders[resp.order].executor, orders[resp.order].service) = 0
    /\ prices[orders[resp.order].service] > 0

\* ========================================================= cart claims
\* Every worker's request has been answered.
AllAnswered == \A p \in 1..NReq : req[p].pc = "done"

\* The quantities the answered requests of workers 1..n asked for, summed.
RECURSIVE Asked(_)
Asked(n) == IF n = 0 THEN 0 ELSE req[n].quantity + Asked(n - 1)

\* The quantity of ann's line for s1 at the start (0 when there is none).
Quantity0 ==
    IF items0 = {} THEN 0 ELSE (CHOOSE r \in items0 : TRUE).quantity

UniqueLines ==
    \A r1, r2 \in items :
        (r1.cart = r2.cart /\ r1.service = r2.service) => r1 = r2

C21_OneCartPerUser ==
    /\ [](\A u \in Users : Cardinality(CartsOf(u)) <= 1)
    /\ [][/\ carts \subseteq carts'
          /\ \A p \in 1..NReq :
                /\ (/\ req'[p] # req[p]
                    /\ req'[p].pc = "done"
                    /\ req[p].pc \in {"idle", "done", "cart_create", "cart_reget"}
                    /\ req'[p].result = "OK")
                   => /\ {r \in carts' : r.user = req'[p].cart.user} = {req'[p].cart}
                      /\ req'[p].created <=> req'[p].cart \notin carts
                      /\ req[p].pc \in {"cart_create", "cart_reget"}
                            => req'[p].cart.user = req[p].user
                /\ \A u \in CartUsers :
                      (Free(p) /\ ClearCart(p, u))
                         => /\ \A r \in items' : r.cart # u
                            /\ \A r \in items : r.cart # u => r \in items'
                            /\ items' \subseteq items
                            /\ CartsOf(u)' # {}
                            /\ <<orders, gone, reviews, prices>>'
                                  = <<orders, gone, reviews, prices>>
         ]_vars

\* C21 witness: a first access of a user found the cart that a concurrent
\* first access of the same user had just inserted, and the user has one cart.
C21_Witness ==
    \E p, q \in 1..NReq :
        /\ req[p].pc = "cart_reget"
        /\ req[q].pc = "done"
        /\ req[q].result = "OK"
        /\ req[q].created
        /\ req[q].cart.user = req[p].user
        /\ CartsOf(req[p].user) = {req[q].cart}

\* C30: when an add_item for a service in the cart and a remove_item or
\* clear on the same cart have both been answered, add_item has succeeded
\* and the cart is as after the two requests one after the other: without
\* the line, or with the line holding exactly the added quantity.
C30_AddRemoveLinearizable ==
    (req[1].pc = "done" /\ req[2].pc = "done" /\ req[2].result \in {"Deleted", "Cleared"})
        => /\ req[1].result \in {"Created", "Updated"}
           /\ \/ items = {}
              \/ \E r \in items :
                    /\ items = {r}
                    /\ r.cart = "ann"
                    /\ r.service = "s1"
                    /\ r.quantity = req[1].quantity

\* The row with primary key n, as a set (empty when there is none).
RowAt(n) == {r \in items : r.pk = n}

\* The claim's totals of cart c, summed over the primary keys 1..n: price of
\* the row's service times its quantity, its quantity, and one per row.
RECURSIVE ExpectedTotal(_, _)
ExpectedTotal(c, n) ==
    IF n = 0 THEN 0
    ELSE (IF \E r \in RowAt(n) : r.cart = c
          THEN LET r == CHOOSE x \in RowAt(n) : TRUE
               IN prices[r.service] * r.quantity
          ELSE 0) + ExpectedTotal(c, n - 1)

RECURSIVE ExpectedUnits(_, _)
ExpectedUnits(c, n) ==
    IF n = 0 THEN 0
    ELSE (IF \E r \in RowAt(n) : r.cart = c
          THEN (CHOOSE x \in RowAt(n) : TRUE).quantity
          ELSE 0) + ExpectedUnits(c, n - 1)

RECURSIVE ExpectedPositions(_, _)
ExpectedPositions(c, n) ==
    IF n = 0 THEN 0
    ELSE (IF \E r \in RowAt(n) : r.cart = c THEN 1 ELSE 0)
         + ExpectedPositions(c, n - 1)

\* C19: in every state the total cost of a cart is the sum of current service
\* price times quantity over its rows, its position count the number of its
\* rows and its unit count the sum of their quantities; all three are 0 for
\* a cart without rows.
C19_CartTotals ==
    \A c \in CartUsers :
        /\ get_total_cost(c) = ExpectedTotal(c, nextItem - 1)
        /\ get_total_positions_count(c) = ExpectedPositions(c, nextItem - 1)
        /\ get_total_items_count(c) = ExpectedUnits(c, nextItem - 1)
        /\ CartItems(c) = {} =>
              /\ get_total_cost(c) = 0
              /\ get_total_positions_count(c) = 0
              /\ get_total_items_count(c) = 0

\* C19 witness: after a price change one cart holds two rows, one of them
\* with several units, and another cart holds none.
C19_Witness ==
    /\ prices # InitialPrices
    /\ \E c \in CartOwners :
          /\ Cardinality(CartItems(c)) > 1
          /\ get_total_items_count(c) > get_total_positions_count(c)
    /\ \E c \in CartOwners : CartItems(c) = {}

\* C20: update_item_quantity on an item of the caller's cart with a
\* quantity above 0 goes on to the write, which sets that row's quantity to
\* the given one and changes no other row; with a quantity of 0 or less it
\* is answered InvalidQuantity and no row changes.
C20_SetQuantityAbsolute ==
    [][\A p \in 1..NReq :
          /\ (Free(p) /\ req'[p] # req[p] /\ req'[p].pc \in {"set", "done"})
             => \A u \in CartUsers, pk \in 1..MaxItems, q \in 0..MaxAdd :
                   (ItemOf(u, pk) # {} /\ SetBegin(p, u, pk, q))
                       => /\ items' = items
                          /\ IF q > 0
                             THEN req'[p] = [pc |-> "set", user |-> u,
                                             item |-> pk, quantity |-> q]
                             ELSE req'[p].result = "InvalidQuantity"
          /\ (req[p].pc = "set" /\ req'[p].pc = "done")
             => IF \E r \in items : r.pk = req[p].item
                THEN /\ req'[p].result = "OK"
                     /\ \E r \in items' :
                           /\ r.pk = req[p].item
                           /\ r.quantity = req[p].quantity
                     /\ {r \in items' : r.pk # req[p].item}
                           = {r \in items : r.pk # req[p].item}
                     /\ Cardinality(items') = Cardinality(items)
                ELSE items' = items
      ]_vars

\* C20 witness: a quantity was just set, a row holds the largest quantity a
\* request gives, and there is another row.
C20_Witness ==
    \E p \in 1..NReq :
        /\ req[p].pc = "done"
        /\ req[p].result = "OK"
        /\ \E r \in items : r.quantity = MaxAdd
        /\ Cardinality(items) > 1

ItemsOfOthers(u) == {r \in items : r.cart # u}

\* C28: update_item_quantity and remove_item go past the lookup of the row
\* only with the primary key of a row of the caller's own cart, and are
\* otherwise answered NotFound (never InvalidQuantity) and write nothing;
\* and every step of a cart request leaves the rows of the other users'
\* carts as they were.
C28_CartIsolation ==
    [][/\ (req' = req /\ items' # items)
             => \E p \in 1..NReq, u \in CartUsers :
                   ClearCart(p, u) /\ ItemsOfOthers(u)' = ItemsOfOthers(u)
       /\ \A p \in 1..NReq :
          /\ (Free(p) /\ req'[p] # req[p] /\ req'[p].pc \in {"set", "delete"})
                => /\ \E r \in items : r.pk = req'[p].item /\ r.cart = req'[p].user
                   /\ items' = items
          /\ (/\ Free(p)
              /\ req'[p] # req[p]
              /\ req'[p].pc = "done"
              /\ req'[p].result = "InvalidQuantity")
                => /\ items' = items
                   /\ \A u \in CartUsers, pk \in 1..MaxItems, q \in 0..MaxAdd :
                         SetBegin(p, u, pk, q)
                            => \E r \in items : r.pk = pk /\ r.cart = u
          /\ (Free(p) /\ req'[p] # req[p] /\ req'[p].pc = "done")
                => req'[p].result \in {"NotFound", "InvalidQuantity",
                                       "ValidationError", "Cleared"}
          /\ (req[p].pc \in {"create", "update", "set", "delete"} /\ req'[p] # req[p])
                => {r \in items' : r.cart # req[p].user} = ItemsOfOthers(req[p].user)
          /\ (Free(p) /\ req'[p] # req[p] /\ items' # items)
                => \E u \in CartUsers :
                      ClearCart(p, u) /\ ItemsOfOthers(u)' = ItemsOfOthers(u)
      ]_vars

\* C28 witness: one request after another, rows were put into two carts
\* under every primary key a request can name, and the last request, an
\* update_item_quantity or remove_item, was answered NotFound.
C28_Witness ==
    /\ req[1].pc = "done"
    /\ req[1].result = "NotFound"
    /\ \A p \in 2..NReq : req[p].pc = "idle"
    /\ Cardinality(items) = MaxItems
    /\ Cardinality({r.cart : r \in items}) > 1

\* ======================================================= review claims
\* C7: no user has two reviews that name the same order.
C7_OneReviewPerOrder ==
    \A i, j \in 1..Len(reviews) :
        (/\ reviews[i].order # NoPk
         /\ reviews[i].order = reviews[j].order
         /\ reviews[i].user = reviews[j].user) => i = j

\* The eligibility claim C8 states for a review by u about e with order o.
Eligible(u, e, o) ==
    /\ ExecutorUser(e) # u
    /\ o # NoPk =>
          /\ o \in OrderIds
          /\ orders[o].client = u
          /\ orders[o].executor = e
          /\ orders[o].status = "completed"
          /\ ~\E i \in 1..Len(reviews) : reviews[i].user = u /\ reviews[i].order = o

\* A step in which worker p answers a review request with a rejection.
ReviewRefused(p, e, rating) ==
    /\ resp' # resp
    /\ resp'.op = "review"
    /\ BeginReview(p, resp'.user, e, resp'.order, rating)

\* A step in which a review request of worker p passes validation.
ReviewAdmitted(p) ==
    /\ req[p].pc = "idle"
    /\ req'[p].pc = "insert"
    /\ \E rating \in Ratings :
          BeginReview(p, req'[p].user, req'[p].executor, req'[p].order, rating)

\* C8: a review request (with a rating among the choices) passes validation
\* exactly when it is eligible, and a request that passed is stored as given.
C8_AcceptedIffEligible ==
    [][\A p \in 1..NReq :
          /\ ReviewAdmitted(p)
                => Eligible(req'[p].user, req'[p].executor, req'[p].order)
          /\ \A e \in Executors, rating \in Ratings :
                ReviewRefused(p, e, rating)
                    => ~Eligible(resp'.user, e, resp'.order)
          /\ (req[p].pc = "insert" /\ InsertReview(p))
                => /\ Len(reviews') = Len(reviews) + 1
                   /\ reviews'[Len(reviews')] =
                          [user |-> req[p].user, executor |-> req[p].executor,
                           order |-> req[p].order]
                   /\ resp'.result = "Created"
      ]_vars

\* C8 witness: a review naming an order was accepted and stored.
C8_Witness ==
    /\ resp.op = "review"
    /\ resp.result = "Created"
    /\ resp.order # NoPk
    /\ \E i \in 1..Len(reviews) : reviews[i].order = resp.order

\* C29: every stored review that names an order names an existing order
\* that is completed, has the review's author as client and the review's
\* executor as executor.
C29_ReviewedOrderStaysEligible ==
    \A i \in 1..Len(reviews) :
        reviews[i].order # NoPk =>
            /\ reviews[i].order \in OrderIds
            /\ orders[reviews[i].order].status = "completed"
            /\ orders[reviews[i].order].client = reviews[i].user
            /\ orders[reviews[i].order].executor = reviews[i].executor

\* C9: a review of one's own executor profile is answered SelfReview whatever
\* the order argument is.
C9_SelfReviewAlways ==
    [][\A p \in 1..NReq, u \in Users, e \in Executors, o \in 0..MaxOrders + 1,
          rating \in Ratings :
          (ExecutorUser(e) = u /\ BeginReview(p, u, e, o, rating))
              => (resp'.result = "SelfReview" /\ req' = req)
      ]_vars

====
